---- MODULE Spec2Model ----
(***************************************************************************)
(* Model of the text pipeline of the nlp-tf notebooks:                     *)
(*   2-represent-text-as-tensors.ipynb and 3-embeddings.ipynb (the latter  *)
(*   also holds the recurrent-network notebook).                           *)
(*                                                                         *)
(* The notebooks glue Keras layers: TextVectorization (adapt, call),       *)
(* Embedding, Lambda(reduce_mean), SimpleRNN/LSTM/Bidirectional, Dense.    *)
(* A layer call is modelled by what the layer computes for the arguments   *)
(* the notebook passes to it.                                              *)
(*                                                                         *)
(* Tokens are the words a text splits into after standardisation.  A word  *)
(* is an integer of 1..NumWords and the order of the integers is the       *)
(* lexicographic order of the words' strings.  Numbers are scaled down:    *)
(* vocab_size is 50000 or 20000 in the notebooks and at most MaxVocab here.*)
(***************************************************************************)
EXTENDS Integers, Sequences, FiniteSets, TLC

\* ---------------------------------------------------------------- bounds
NumWords == 2
MaxDocLen == 2
MaxVocab == 4
MaxSteps == 2

\* ------------------------------------------------------- reserved tokens
\* get_vocabulary() starts with '' (padding) and '[UNK]' (out of vocabulary)
PadTok == 0
UnkTok == -1
\* the ids of the two reserved tokens: their indices in the vocabulary
PAD == 0
OOV == 1

Words == 1..NumWords
Docs == UNION {[1..n -> Words] : n \in 0..MaxDocLen}

VARIABLES
  kind,        \* how the model's vectorizer gets its vocabulary
  vocab_size,  \* the notebook global vocab_size (0: not assigned yet)
  ds_train,    \* the training records, each the token sequence of its text
  w2v_vocab,   \* list(w2v.vocab.keys()), the words of the pre-trained vectors
  vocab,       \* vectorizer.get_vocabulary()
  pc,          \* "built": awaiting adapt, "ready": vocabulary set, "fit": fit has run a step
  texts,       \* the argument of the latest vectorizer call
  grid,        \* the tensor the latest vectorizer call returned, a sequence of rows
  steps,       \* fit steps run so far
  emb,         \* the Embedding layer's table, one value per row
  pooled,      \* per row of the batch, the output of Lambda(reduce_mean)
  W,           \* the matrix the population loop fills, one value per row
  i,           \* the population loop's index into vocab
  found,       \* the population loop's counters
  not_found,
  rnn,         \* the recurrent layer of the model
  wgt,         \* the recurrent cell's weights during the batch
  layer,       \* the recurrent layer that is scanning (0: none)
  t,           \* positions the scan of the layer has passed
  xseq,        \* per row, the input sequence of the scanning layer
  fw,          \* per row, the state the forward scan carries
  bw,          \* per row, the state the backward scan carries
  fwout,       \* per row, the outputs of the forward scan so far
  bwout,       \* per row, the outputs of the backward scan so far
  out,         \* per row, what the last recurrent layer hands to Dense
  outcome,     \* how the latest constructor or call of the vectorizer ended
  bowop,       \* what computed bow: "to_bow", or "model" for the one-network model
  bow,         \* per text of the latest bag-of-words computation, its vector
  cnt,         \* per text of the latest output_mode='count' call, its vector
  layout,      \* the index layout of the count-mode output
  losses,      \* the loss of each batch fit has processed, in order
  params,      \* whether the model's weights are finite numbers
  dense,       \* the Dense classifier's weights, one value
  rec,         \* the record whose text the latest dataset map passed to to_bow (0: none)
  vectors,     \* glove.vectors, one value per word of glove.index2word
  qvec,        \* the query vector of the nearest-word lookup, in tenths
  dist,        \* per word, the squared distance of its vector to qvec
  min_idx,     \* the index the lookup found (0-based; -1: none yet)
  cell,        \* the cells of the text-representation notebook run so far
  traced       \* what the dataset map's traced to_bow holds: vectorizer and depth

vecVars == <<kind, vocab_size, ds_train, w2v_vocab, vocab, pc, texts, grid, steps, outcome>>
bagVars == <<emb, pooled>>
popVars == <<W, i, found, not_found>>
rnnVars == <<rnn, wgt, layer, t, xseq, fw, bw, fwout, bwout, out>>
bowVars == <<bowop, bow, cnt, layout, rec>>
fitVars == <<losses, params, dense>>
nearVars == <<vectors, qvec, dist, min_idx>>
nbVars == <<cell, traced>>
vars == <<vecVars, bagVars, popVars, rnnVars, bowVars, fitVars, nearVars, nbVars>>

\* ------------------------------------------------------------- helpers
RECURSIVE SeqSum(_)
SeqSum(s) == IF s = <<>> THEN 0 ELSE Head(s) + SeqSum(Tail(s))

Max(S) == CHOOSE x \in S : \A y \in S : y <= x

\* the ascending sequence of a set of integers
RECURSIVE Ascending(_)
Ascending(S) ==
  IF S = {} THEN <<>>
  ELSE LET m == CHOOSE x \in S : \A y \in S : x <= y
       IN <<m>> \o Ascending(S \ {m})

\* ds.map(extract_text) read as one token stream by adapt
RECURSIVE Flatten(_)
Flatten(ds) == IF ds = <<>> THEN <<>> ELSE Head(ds) \o Flatten(Tail(ds))

\* number of occurrences of word w in the stream: adapt's token count
Count(stream, w) == Cardinality({k \in DOMAIN stream : stream[k] = w})

\* position of the first occurrence of w in the stream (w occurs in it)
FirstSeen(stream, w) == CHOOSE k \in DOMAIN stream :
                          stream[k] = w /\ \A j \in 1..(k-1) : stream[j] # w

\* -------------------------------------------------- TextVectorization.adapt
\* mutant: equal counts ranked by ascending token
Ranks_ascending(stream, w, v) ==
  \/ Count(stream, w) > Count(stream, v)
  \/ Count(stream, w) = Count(stream, v) /\ w < v

\* adapt ranks the counted tokens by (count, token), both descending
Ranks(stream, w, v) ==
  \/ Count(stream, w) > Count(stream, v)
  \/ Count(stream, w) = Count(stream, v) /\ w > v

RECURSIVE Ranked(_, _)
Ranked(stream, S) ==
  IF S = {} THEN <<>>
  ELSE LET w == CHOOSE x \in S : \A y \in S \ {x} : Ranks(stream, x, y)
       IN <<w>> \o Ranked(stream, S \ {w})

\* mutant: the reserved tokens are not counted towards max_tokens
Truncate_uncounted(ranked, max_tokens) ==
  IF max_tokens = 0 \/ Len(ranked) <= max_tokens THEN ranked
  ELSE SubSeq(ranked, 1, max_tokens)

\* max_tokens = 0 stands for max_tokens=None.  The two reserved tokens count
\* towards max_tokens.
Truncate(ranked, max_tokens) ==
  IF max_tokens = 0 \/ Len(ranked) <= max_tokens - 2 THEN ranked
  ELSE SubSeq(ranked, 1, max_tokens - 2)

BuildVocabulary(stream, max_tokens) ==
  <<PadTok, UnkTok>> \o
  Truncate(Ranked(stream, {stream[k] : k \in DOMAIN stream}), max_tokens)

\* --------------------------------------------------- TextVectorization call
\* mutant: a token without an index gets the padding id
IdOf_unknown_as_pad(voc, w) ==
  IF \E j \in DOMAIN voc : voc[j] = w
  THEN (CHOOSE j \in DOMAIN voc : voc[j] = w) - 1
  ELSE PAD

\* the id of a token: its index in the vocabulary, OOV when it has none
IdOf(voc, w) ==
  IF \E j \in DOMAIN voc : voc[j] = w
  THEN (CHOOSE j \in DOMAIN voc : voc[j] = w) - 1
  ELSE OOV

\* mutant: a text without tokens gets one unknown id
Vectorize_empty_as_unknown(voc, text) ==
  IF text = <<>> THEN <<OOV>>
  ELSE [k \in 1..Len(text) |-> IdOf(voc, text[k])]

\* the ids of a text's tokens in token order; no tokens, no ids
Vectorize(voc, text) == [k \in 1..Len(text) |-> IdOf(voc, text[k])]

\* mutant: a fixed output length instead of the longest row's
Width_fixed(seqs) == MaxDocLen

\* a list of texts gives a rectangular tensor: rows are right-padded with PAD
\* to the length of the longest
Width(seqs) == Max({0} \cup {Len(seqs[r]) : r \in DOMAIN seqs})

\* mutant: padding in front of the tokens
PadTo_left(row, n) ==
  [j \in 1..n |-> IF j <= n - Len(row) THEN PAD ELSE row[j - (n - Len(row))]]

PadTo(row, n) == [j \in 1..n |-> IF j <= Len(row) THEN row[j] ELSE PAD]

\* mutant: ids from a vocabulary built on the fly from the texts of the call
VectorizeBatch_on_the_fly(voc, ts) ==
  LET own == BuildVocabulary(Flatten(ts), 0)
      rows == [r \in DOMAIN ts |-> Vectorize(own, ts[r])]
  IN [r \in DOMAIN ts |-> PadTo(rows[r], Width(rows))]

VectorizeBatch(voc, ts) ==
  LET rows == [r \in DOMAIN ts |-> Vectorize(voc, ts[r])]
  IN [r \in DOMAIN ts |-> PadTo(rows[r], Width(rows))]

\* ------------------------------------------------------- model construction
Kinds == {"unlimited", "capped", "w2v"}

\* TextVectorization() / TextVectorization(max_tokens=vocab_size)
MaxTokens == IF kind = "capped" THEN vocab_size ELSE 0

\* mutant: only the constructor's own test, max_tokens < 1
ValidMaxTokens_positive(n) == n >= 1

\* TextVectorization(max_tokens=n) raises ValueError unless n is greater than
\* 1: the layer rejects n < 1 and its index lookup rejects n <= 1
ValidMaxTokens(n) == n > 1

\* first dimension of the Embedding table, or the one-hot depth, that
\* consumes the ids: vocab_size, or the number of pre-trained vectors for
\* w2v.get_keras_embedding
TableRows == IF kind = "w2v" THEN Len(w2v_vocab) ELSE vocab_size

\* the row of a word in the table w2v.get_keras_embedding builds from
\* w2v.vectors: its 0-based position among the pre-trained words
VectorRow(w) == (CHOOSE j \in DOMAIN w2v_vocab : w2v_vocab[j] = w) - 1

\* the layers and loops a specification leaves out
NoBag == emb = <<>> /\ pooled = <<>>
NoPopulate == W = <<>> /\ i = 0 /\ found = 0 /\ not_found = 0
NoScan == /\ layer = 0 /\ t = 0 /\ wgt = <<>> /\ xseq = <<>> /\ out = <<>>
          /\ fw = <<>> /\ bw = <<>> /\ fwout = <<>> /\ bwout = <<>>
NoRnn == rnn = "none" /\ NoScan
NoBow == bowop = "none" /\ bow = <<>> /\ cnt = <<>> /\ layout = "none" /\ rec = 0
NoFit == losses = <<>> /\ params = "finite" /\ dense = 0
NoNear == vectors = <<>> /\ qvec = 0 /\ dist = <<>> /\ min_idx = -1
NoNotebook == cell = 0 /\ traced = <<>>

\* vectorizer = TextVectorization(...): a constructor that raises leaves no
\* vectorizer behind
Init ==
  /\ NoBag /\ NoPopulate /\ NoRnn /\ NoBow /\ NoFit
  /\ NoNear /\ NoNotebook
  /\ kind \in Kinds
  /\ ds_train \in {<<a, b>> : a \in Docs, b \in Docs}
  /\ vocab_size \in IF kind = "capped" THEN 0..MaxVocab ELSE {0}
  /\ w2v_vocab \in IF kind = "w2v"
                   THEN {Ascending(S) : S \in SUBSET Words \ {{}}}
                   ELSE {<<>>}
  /\ IF kind = "capped" /\ ~ValidMaxTokens(vocab_size)
     THEN /\ vocab = <<>>
          /\ pc = "failed"
          /\ outcome = "ValueError"
     ELSE /\ vocab = IF kind = "w2v" THEN <<PadTok, UnkTok>> \o w2v_vocab
                                     ELSE <<PadTok, UnkTok>>
          /\ pc = IF kind = "w2v" THEN "ready" ELSE "built"
          /\ outcome = "constructed"
  /\ texts = <<>>
  /\ grid = <<>>
  /\ steps = 0

\* vectorizer.adapt(ds_train.map(extract_text)); for the vectorizer without
\* max_tokens the next cell sets vocab_size = len(vocab)
Adapt ==
  /\ pc = "built"
  /\ vocab' = BuildVocabulary(Flatten(ds_train), MaxTokens)
  /\ vocab_size' = IF kind = "unlimited" THEN Len(vocab') ELSE vocab_size
  /\ pc' = "ready"
  /\ UNCHANGED <<kind, ds_train, w2v_vocab, texts, grid, steps, outcome>>
  /\ UNCHANGED <<bagVars, popVars, rnnVars, bowVars, fitVars, nearVars, nbVars>>

\* mutant: a call adds the tokens it does not know to the vocabulary
Call_learns(k) ==
  /\ pc \in {"ready", "fit"}
  /\ texts' = <<ds_train[k]>>
  /\ vocab' = vocab \o
       Ascending({w \in Words : /\ \E j \in DOMAIN ds_train[k] : ds_train[k][j] = w
                                /\ \A j \in DOMAIN vocab : vocab[j] # w})
  /\ grid' = VectorizeBatch(vocab', texts')
  /\ outcome' = "returned"
  /\ UNCHANGED <<kind, vocab_size, ds_train, w2v_vocab, pc, steps>>
  /\ UNCHANGED <<bagVars, popVars, rnnVars, bowVars, fitVars, nearVars, nbVars>>

\* vectorizer(text) on one string: a tensor of shape (n,)
Call(k) ==
  /\ pc \in {"ready", "fit"}
  /\ texts' = <<ds_train[k]>>
  /\ grid' = VectorizeBatch(vocab, texts')
  /\ outcome' = "returned"
  /\ UNCHANGED <<kind, vocab_size, ds_train, w2v_vocab, vocab, pc, steps>>
  /\ UNCHANGED <<bagVars, popVars, rnnVars, bowVars, fitVars, nearVars, nbVars>>

\* vectorizer([text, text]) on a list of strings
CallList ==
  /\ pc \in {"ready", "fit"}
  /\ \E ts \in {ds_train, <<ds_train[2], ds_train[1]>>} :
       /\ texts' = ts
       /\ grid' = VectorizeBatch(vocab, ts)
  /\ outcome' = "returned"
  /\ UNCHANGED <<kind, vocab_size, ds_train, w2v_vocab, vocab, pc, steps>>
  /\ UNCHANGED <<bagVars, popVars, rnnVars, bowVars, fitVars, nearVars, nbVars>>

\* one step of model.fit(ds_train.map(tupelize).batch(n)): the model's first
\* layer vectorizes the batch
FitStep ==
  /\ pc \in {"ready", "fit"}
  /\ steps < MaxSteps
  /\ texts' = ds_train
  /\ grid' = VectorizeBatch(vocab, ds_train)
  /\ steps' = steps + 1
  /\ pc' = "fit"
  /\ outcome' = "returned"
  /\ UNCHANGED <<kind, vocab_size, ds_train, w2v_vocab, vocab>>
  /\ UNCHANGED <<bagVars, popVars, rnnVars, bowVars, fitVars, nearVars, nbVars>>

\* vectorizer([]) on a list without strings.  What the call does depends on
\* the installed TensorFlow: the list becomes a string tensor of shape (0,)
\* and the call returns a tensor without rows, or the list becomes a float
\* tensor and the string operations raise a TypeError.
CallEmpty ==
  /\ pc \in {"ready", "fit"}
  /\ \/ /\ texts' = <<>>
        /\ grid' = <<>>
        /\ outcome' = "returned"
     \/ /\ outcome' = "TypeError"
        /\ UNCHANGED <<texts, grid>>
  /\ UNCHANGED <<kind, vocab_size, ds_train, w2v_vocab, vocab, pc, steps>>
  /\ UNCHANGED <<bagVars, popVars, rnnVars, bowVars, fitVars, nearVars, nbVars>>

Next ==
  \/ Adapt
  \/ \E k \in 1..2 : Call(k)
  \/ CallList
  \/ CallEmpty
  \/ FitStep

Spec == Init /\ [][Next]_vars

\* ======================================================================
\* The embedding-bag classifier: TextVectorization(max_tokens=vocab_size),
\* Embedding(vocab_size, 100), Lambda(reduce_mean(x, axis=1)), Dense.
\* An embedding vector is modelled by one of its components.
\* ======================================================================
EmbVals == 0..1

\* the values of the Dense layer's weights, one value standing for them all
DenseVals == 0..1

Tables(rows) == [0..(rows - 1) -> EmbVals]

\* Embedding: each id of the row replaced by its table row
Embed(table, row) == [j \in DOMAIN row |-> table[row[j]]]

\* tf.reduce_mean(x, axis=1) of one row: the sum of the positions' vectors
\* over the number of positions, kept as the fraction <<sum, positions>>
ReduceMean(xs) == <<SeqSum(xs), Len(xs)>>

\* equality of two fractions with non-zero denominators
SameMean(p, q) == p[1] * q[2] = q[1] * p[2]

\* the first three layers of the model on a batch of texts
BagForward(table, voc, ts) ==
  LET g == VectorizeBatch(voc, ts)
  IN [r \in DOMAIN g |-> ReduceMean(Embed(table, g[r]))]

InitBag ==
  /\ NoPopulate /\ NoRnn /\ NoBow /\ NoFit
  /\ NoNear /\ NoNotebook
  /\ outcome = "constructed"
  /\ kind = "capped"
  /\ ds_train \in {<<a, b>> : a \in Docs, b \in Docs}
  /\ vocab_size \in 2..MaxVocab
  /\ w2v_vocab = <<>>
  /\ vocab = <<PadTok, UnkTok>>
  /\ pc = "built"
  /\ texts = <<>>
  /\ grid = <<>>
  /\ steps = 0
  /\ emb \in Tables(vocab_size)
  /\ pooled = <<>>

\* the model applied to texts, one text or a list
Predict ==
  /\ pc \in {"ready", "fit"}
  /\ \E ts \in {<<ds_train[1]>>, <<ds_train[2]>>, ds_train} :
       /\ texts' = ts
       /\ grid' = VectorizeBatch(vocab, ts)
       /\ pooled' = BagForward(emb, vocab, ts)
  /\ outcome' = "returned"
  /\ UNCHANGED <<kind, vocab_size, ds_train, w2v_vocab, vocab, pc, steps, emb>>
  /\ UNCHANGED <<popVars, rnnVars, bowVars, fitVars, nearVars, nbVars>>

\* one step of model.fit on the batch of the training records: the forward
\* pass, then the optimizer's update of the trainable table.  The step's
\* activations are not kept, and outputs of the table before the update are
\* no longer the model's.
FitStepBag ==
  /\ pc \in {"ready", "fit"}
  /\ texts' = ds_train
  /\ grid' = VectorizeBatch(vocab, ds_train)
  /\ pooled' = <<>>
  /\ emb' \in Tables(vocab_size)
  /\ pc' = "fit"
  /\ outcome' = "returned"
  /\ UNCHANGED <<kind, vocab_size, ds_train, w2v_vocab, vocab, steps>>
  /\ UNCHANGED <<popVars, rnnVars, bowVars, fitVars, nearVars, nbVars>>

NextBag ==
  \/ Adapt
  \/ Predict
  \/ FitStepBag

SpecBag == InitBag /\ [][NextBag]_vars

\* ======================================================================
\* Pre-populating the embedding matrix from the pre-trained vectors, with the
\* vocabulary of the adapted vectorizer (max_tokens=vocab_size).
\* ======================================================================
\* w2v.get_vector(w) raises KeyError for a word without a vector
HasVector(w) == \E j \in DOMAIN w2v_vocab : w2v_vocab[j] = w

\* the pre-trained vector of a word that has one
get_vector(w) == w

InitPopulate ==
  /\ NoBag /\ NoPopulate /\ NoRnn /\ NoBow /\ NoFit
  /\ NoNear /\ NoNotebook
  /\ outcome = "constructed"
  /\ kind = "capped"
  /\ ds_train \in {<<a, b>> : a \in Docs, b \in Docs}
  /\ vocab_size \in 2..MaxVocab
  /\ w2v_vocab \in {Ascending(S) : S \in SUBSET Words \ {{}}}
  /\ vocab = <<PadTok, UnkTok>>
  /\ pc = "built"
  /\ texts = <<>>
  /\ grid = <<>>
  /\ steps = 0

\* mutant: W allocated with ones instead of np.zeros
StartPopulate_ones ==
  /\ pc = "ready"
  /\ W' = [r \in 0..(vocab_size - 1) |-> 1]
  /\ i' = 0
  /\ found' = 0
  /\ not_found' = 0
  /\ pc' = "populating"
  /\ UNCHANGED <<kind, vocab_size, ds_train, w2v_vocab, vocab, texts, grid, steps, outcome>>
  /\ UNCHANGED <<bagVars, rnnVars, bowVars, fitVars, nearVars, nbVars>>

\* vocab = vectorizer.get_vocabulary(); W = np.zeros((vocab_size, embed_size));
\* found, not_found = 0, 0
StartPopulate ==
  /\ pc = "ready"
  /\ W' = [r \in 0..(vocab_size - 1) |-> 0]
  /\ i' = 0
  /\ found' = 0
  /\ not_found' = 0
  /\ pc' = "populating"
  /\ UNCHANGED <<kind, vocab_size, ds_train, w2v_vocab, vocab, texts, grid, steps, outcome>>
  /\ UNCHANGED <<bagVars, rnnVars, bowVars, fitVars, nearVars, nbVars>>

\* mutant: the KeyError of a missing word is not caught
PopulateStep_raises ==
  /\ pc = "populating"
  /\ i < Len(vocab)
  /\ IF HasVector(vocab[i + 1])
     THEN /\ W' = [W EXCEPT ![i] = get_vector(vocab[i + 1])]
          /\ found' = found + 1
          /\ i' = i + 1
          /\ UNCHANGED <<not_found, pc>>
     ELSE /\ pc' = "failed"
          /\ UNCHANGED <<W, i, found, not_found>>
  /\ UNCHANGED <<kind, vocab_size, ds_train, w2v_vocab, vocab, texts, grid, steps, outcome>>
  /\ UNCHANGED <<bagVars, rnnVars, bowVars, fitVars, nearVars, nbVars>>

\* mutant: found counted before the lookup, so a miss counts in both
PopulateStep_counts_first ==
  /\ pc = "populating"
  /\ i < Len(vocab)
  /\ found' = found + 1
  /\ IF HasVector(vocab[i + 1])
     THEN /\ W' = [W EXCEPT ![i] = get_vector(vocab[i + 1])]
          /\ UNCHANGED not_found
     ELSE /\ not_found' = not_found + 1
          /\ UNCHANGED W
  /\ i' = i + 1
  /\ UNCHANGED <<kind, vocab_size, ds_train, w2v_vocab, vocab, pc, texts, grid, steps, outcome>>
  /\ UNCHANGED <<bagVars, rnnVars, bowVars, fitVars, nearVars, nbVars>>

\* one iteration of: for i,w in enumerate(vocab): try: W[i] = get_vector(w);
\* found+=1  except: not_found+=1
PopulateStep ==
  /\ pc = "populating"
  /\ i < Len(vocab)
  /\ IF HasVector(vocab[i + 1])
     THEN /\ W' = [W EXCEPT ![i] = get_vector(vocab[i + 1])]
          /\ found' = found + 1
          /\ UNCHANGED not_found
     ELSE /\ not_found' = not_found + 1
          /\ UNCHANGED <<W, found>>
  /\ i' = i + 1
  /\ UNCHANGED <<kind, vocab_size, ds_train, w2v_vocab, vocab, pc, texts, grid, steps, outcome>>
  /\ UNCHANGED <<bagVars, rnnVars, bowVars, fitVars, nearVars, nbVars>>

\* the loop is exhausted: print(f"Done, found {found} words, ...")
EndPopulate ==
  /\ pc = "populating"
  /\ i = Len(vocab)
  /\ pc' = "populated"
  /\ UNCHANGED <<kind, vocab_size, ds_train, w2v_vocab, vocab, texts, grid, steps, outcome>>
  /\ UNCHANGED <<bagVars, popVars, rnnVars, bowVars, fitVars, nearVars, nbVars>>

\* emb = keras.layers.Embedding(vocab_size, embed_size, weights=[W],
\* trainable=False); model = Sequential([vectorizer, emb, Lambda, Dense]);
\* model.compile(...): the table starts as a copy of W, the classifier with
\* its initial weights
BuildFrozen ==
  /\ pc = "populated"
  /\ emb' = W
  /\ dense' = 0
  /\ pc' = "frozen"
  /\ UNCHANGED <<kind, vocab_size, ds_train, w2v_vocab, vocab, texts, grid, steps, outcome>>
  /\ UNCHANGED <<pooled, popVars, rnnVars, bowVars, losses, params, nearVars, nbVars>>

\* mutant: the Embedding layer left trainable
FitStepFrozen_trains ==
  /\ pc = "frozen"
  /\ steps < MaxSteps
  /\ steps' = steps + 1
  /\ texts' = ds_train
  /\ grid' = VectorizeBatch(vocab, ds_train)
  /\ pooled' = <<>>
  /\ emb' \in Tables(vocab_size)
  /\ dense' \in DenseVals
  /\ outcome' = "returned"
  /\ UNCHANGED <<kind, vocab_size, ds_train, w2v_vocab, vocab, pc>>
  /\ UNCHANGED <<popVars, rnnVars, bowVars, losses, params, nearVars, nbVars>>

\* one step of model.fit(ds_train.map(tupelize).batch(batch_size), ...): the
\* forward pass on the batch, then the optimizer's update of the trainable
\* weights, which are the Dense layer's; the table is not trainable
FitStepFrozen ==
  /\ pc = "frozen"
  /\ steps < MaxSteps
  /\ steps' = steps + 1
  /\ texts' = ds_train
  /\ grid' = VectorizeBatch(vocab, ds_train)
  /\ pooled' = <<>>
  /\ dense' \in DenseVals
  /\ outcome' = "returned"
  /\ UNCHANGED <<kind, vocab_size, ds_train, w2v_vocab, vocab, pc, emb>>
  /\ UNCHANGED <<popVars, rnnVars, bowVars, losses, params, nearVars, nbVars>>

NextPopulate ==
  \/ Adapt
  \/ StartPopulate
  \/ PopulateStep
  \/ EndPopulate
  \/ BuildFrozen
  \/ FitStepFrozen

SpecPopulate == InitPopulate /\ [][NextPopulate]_vars

\* ======================================================================
\* The recurrent classifiers: TextVectorization(max_tokens=vocab_size),
\* Embedding(vocab_size, 128[, mask_zero=True]), a recurrent layer, Dense.
\*   "SimpleRNN"       Embedding without mask_zero, SimpleRNN(64)
\*   "SimpleRNN_mask"  Embedding(mask_zero=True), SimpleRNN(64)
\*   "LSTM"            Embedding(mask_zero=True), LSTM(32)
\*   "BiLSTM"          Embedding(mask_zero=True),
\*                     Bidirectional(LSTM(64, return_sequences=True)),
\*                     Bidirectional(LSTM(64))
\* Vectors are modelled by one component with values modulo Modulus, the
\* activations by the identity; the layers of a model share one weight set.
\* ======================================================================
Modulus == 3
WeightVals == 1..2
BiasVals == 0..1
Weights == [a : WeightVals, b : WeightVals, c : BiasVals]
RnnKinds == {"SimpleRNN", "SimpleRNN_mask", "LSTM", "BiLSTM"}

\* Embedding(..., mask_zero=True): positions holding id 0 are masked
Masking(k) == k # "SimpleRNN"
IsBidirectional(k) == k = "BiLSTM"
NumLayers(k) == IF k = "BiLSTM" THEN 2 ELSE 1

\* the initial state of a scan: all zeros
ZeroState == [h |-> 0, c |-> 0]

\* SimpleRNN cell: new state from the input and the previous state
SimpleCell(w, s, x) == [h |-> (w.a * x + w.b * s.h + w.c) % Modulus, c |-> 0]

\* LSTM cell: forget, input and output gates and the candidate from the
\* input and the previous hidden state; the cell state c is carried beside h
LstmCell(w, s, x) ==
  LET z == w.a * x + w.b * s.h
      f == (z + 1) % Modulus
      g == (z + 2) % Modulus
      o == (z + w.c + 1) % Modulus
      cand == (z + w.c) % Modulus
      c2 == (f * s.c + g * cand) % Modulus
  IN [h |-> (o * c2) % Modulus, c |-> c2]

Cell(k, w, s, x) ==
  IF k \in {"SimpleRNN", "SimpleRNN_mask"} THEN SimpleCell(w, s, x)
                                           ELSE LstmCell(w, s, x)

\* Bidirectional merges the two directions' outputs by concatenation; the
\* next layer's kernel projects the concatenated vector
Project(y) == (y[1] + 2 * y[2]) % Modulus

\* the table of the Embedding layer: row id holds (id + shift) mod Modulus
EmbTable(rows, shift) == [id \in 0..(rows - 1) |-> (id + shift) % Modulus]

InitRNN ==
  /\ NoPopulate /\ NoScan /\ NoBow /\ NoFit
  /\ NoNear /\ NoNotebook
  /\ outcome = "constructed"
  /\ rnn \in RnnKinds
  /\ kind = "capped"
  /\ ds_train \in {<<a, b>> : a \in Docs, b \in Docs}
  /\ vocab_size = MaxVocab
  /\ w2v_vocab = <<>>
  /\ vocab = <<PadTok, UnkTok>>
  /\ pc = "built"
  /\ texts = <<>>
  /\ grid = <<>>
  /\ steps = 0
  /\ emb \in {EmbTable(vocab_size, 0), EmbTable(vocab_size, 1)}
  /\ pooled = <<>>

\* a step of model.fit begins: the batch is vectorized and embedded, and the
\* first recurrent layer starts from zero states.  The weights are those the
\* optimizer left.
FitBegin ==
  /\ pc \in {"ready", "fit"}
  /\ layer = 0
  /\ wgt' \in Weights
  /\ texts' = ds_train
  /\ grid' = VectorizeBatch(vocab, ds_train)
  /\ xseq' = [r \in DOMAIN grid' |-> Embed(emb, grid'[r])]
  /\ layer' = 1
  /\ t' = 0
  /\ fw' = [r \in DOMAIN grid' |-> ZeroState]
  /\ bw' = [r \in DOMAIN grid' |-> ZeroState]
  /\ fwout' = [r \in DOMAIN grid' |-> <<>>]
  /\ bwout' = [r \in DOMAIN grid' |-> <<>>]
  /\ out' = <<>>
  /\ outcome' = "returned"
  /\ UNCHANGED <<kind, vocab_size, ds_train, w2v_vocab, vocab, pc, steps, rnn>>
  /\ UNCHANGED <<bagVars, popVars, bowVars, fitVars, nearVars, nbVars>>

\* the position of the row the forward scan reads at its step n, and the
\* position the backward scan (go_backwards=True) reads at its step n
FwPos(n) == n

\* mutant: the second copy of the layer without go_backwards
BwPos_forward(n) == n

BwPos(n) == Len(grid[1]) + 1 - n

\* mutant: the scan does not look at the mask
Skipped_never(r, p) == FALSE

\* the scan skips position p of row r: the mask is on and the id is PAD
Skipped(r, p) == Masking(rnn) /\ grid[r][p] = PAD

\* one time step of the scanning layer on all rows: a skipped position hands
\* the state and the output on unchanged
ScanStep ==
  /\ layer >= 1
  /\ t < Len(grid[1])
  /\ t' = t + 1
  /\ fw' = [r \in DOMAIN grid |->
              IF Skipped(r, FwPos(t + 1)) THEN fw[r]
              ELSE Cell(rnn, wgt, fw[r], xseq[r][FwPos(t + 1)])]
  /\ bw' = [r \in DOMAIN grid |->
              IF ~IsBidirectional(rnn) \/ Skipped(r, BwPos(t + 1)) THEN bw[r]
              ELSE Cell(rnn, wgt, bw[r], xseq[r][BwPos(t + 1)])]
  /\ fwout' = [r \in DOMAIN grid |-> Append(fwout[r], fw'[r].h)]
  /\ bwout' = [r \in DOMAIN grid |-> Append(bwout[r], bw'[r].h)]
  /\ UNCHANGED <<layer, wgt, xseq, out, rnn>>
  /\ UNCHANGED <<vecVars, bagVars, popVars, bowVars, fitVars, nearVars, nbVars>>

\* mutant: the backward outputs handed on in the order they were computed
EndLayer_unaligned ==
  /\ layer >= 1
  /\ layer < NumLayers(rnn)
  /\ t = Len(grid[1])
  /\ xseq' = [r \in DOMAIN grid |->
                [p \in 1..Len(grid[1]) |->
                   Project(<<fwout[r][p], bwout[r][p]>>)]]
  /\ layer' = layer + 1
  /\ t' = 0
  /\ fw' = [r \in DOMAIN grid |-> ZeroState]
  /\ bw' = [r \in DOMAIN grid |-> ZeroState]
  /\ fwout' = [r \in DOMAIN grid |-> <<>>]
  /\ bwout' = [r \in DOMAIN grid |-> <<>>]
  /\ UNCHANGED <<wgt, out, rnn>>
  /\ UNCHANGED <<vecVars, bagVars, popVars, bowVars, fitVars, nearVars, nbVars>>

\* a layer with return_sequences=True has passed all positions: its outputs,
\* the backward ones put back in position order, are the next layer's inputs
EndLayer ==
  /\ layer >= 1
  /\ layer < NumLayers(rnn)
  /\ t = Len(grid[1])
  /\ xseq' = [r \in DOMAIN grid |->
                [p \in 1..Len(grid[1]) |->
                   Project(<<fwout[r][p], bwout[r][Len(grid[1]) + 1 - p]>>)]]
  /\ layer' = layer + 1
  /\ t' = 0
  /\ fw' = [r \in DOMAIN grid |-> ZeroState]
  /\ bw' = [r \in DOMAIN grid |-> ZeroState]
  /\ fwout' = [r \in DOMAIN grid |-> <<>>]
  /\ bwout' = [r \in DOMAIN grid |-> <<>>]
  /\ UNCHANGED <<wgt, out, rnn>>
  /\ UNCHANGED <<vecVars, bagVars, popVars, bowVars, fitVars, nearVars, nbVars>>

\* the last recurrent layer has passed all positions: its final state goes to
\* Dense, and the step of fit ends
FitEnd ==
  /\ layer = NumLayers(rnn)
  /\ t = Len(grid[1])
  /\ out' = [r \in DOMAIN grid |->
               IF IsBidirectional(rnn) THEN <<fw[r].h, bw[r].h>>
                                       ELSE <<fw[r].h>>]
  /\ layer' = 0
  /\ pc' = "fit"
  /\ UNCHANGED <<kind, vocab_size, ds_train, w2v_vocab, vocab, texts, grid, steps, outcome>>
  /\ UNCHANGED <<wgt, t, xseq, fw, bw, fwout, bwout, rnn>>
  /\ UNCHANGED <<bagVars, popVars, bowVars, fitVars, nearVars, nbVars>>

NextRNN ==
  \/ Adapt
  \/ FitBegin
  \/ ScanStep
  \/ EndLayer
  \/ FitEnd

SpecRNN == InitRNN /\ [][NextRNN]_vars

\* ---- the same layers on one unpadded sequence, all at once
RECURSIVE ScanFrom(_, _, _, _)
ScanFrom(k, w, s, xs) ==
  IF xs = <<>> THEN s
  ELSE ScanFrom(k, w, Cell(k, w, s, Head(xs)), Tail(xs))

Reverse(xs) == [p \in 1..Len(xs) |-> xs[Len(xs) + 1 - p]]

\* the forward outputs of a layer at every position
OutSeq(k, w, xs) ==
  [p \in 1..Len(xs) |-> ScanFrom(k, w, ZeroState, SubSeq(xs, 1, p)).h]

\* the inputs the second layer gets from a bidirectional first layer
SecondLayerInput(k, w, xs) ==
  [p \in 1..Len(xs) |->
     Project(<<OutSeq(k, w, xs)[p], OutSeq(k, w, Reverse(xs))[Len(xs) + 1 - p]>>)]

FinalOf(k, w, xs) ==
  IF IsBidirectional(k)
  THEN <<ScanFrom(k, w, ZeroState, xs).h, ScanFrom(k, w, ZeroState, Reverse(xs)).h>>
  ELSE <<ScanFrom(k, w, ZeroState, xs).h>>

\* what Dense gets for the ids of one text that is alone in its batch
RnnAlone(k, w, table, ids) ==
  IF NumLayers(k) = 2
  THEN FinalOf(k, w, SecondLayerInput(k, w, Embed(table, ids)))
  ELSE FinalOf(k, w, Embed(table, ids))

\* ======================================================================
\* Bag of words: to_bow, the one-network classifier that sums one-hot
\* vectors inside the model, and the classifier whose vectorizer has
\* output_mode='count'.  A vector is a function on 0..(depth - 1).
\* ======================================================================
\* mutant: index k stands for id k + 1
OneHot_one_based(id, depth) == [k \in 0..(depth - 1) |-> IF k + 1 = id THEN 1 ELSE 0]

\* tf.one_hot(id, depth): 1 at index id, 0 elsewhere
OneHot(id, depth) == [k \in 0..(depth - 1) |-> IF k = id THEN 1 ELSE 0]

\* tf.reduce_sum over the axis of the positions
ReduceSum(vs, depth) ==
  [k \in 0..(depth - 1) |-> SeqSum([j \in DOMAIN vs |-> vs[j][k]])]

\* tf.reduce_sum(tf.one_hot(ids, depth), axis) of one row of ids
SumOneHot(ids, depth) ==
  ReduceSum([j \in DOMAIN ids |-> OneHot(ids[j], depth)], depth)

\* def to_bow(text):
\*   return tf.reduce_sum(tf.one_hot(vectorizer(text),vocab_size),axis=0)
to_bow(voc, depth, text) == SumOneHot(Vectorize(voc, text), depth)

\* x = vectorizer(inp); x = tf.reduce_sum(tf.one_hot(x,vocab_size),axis=1):
\* the rows of the batch's grid, each summed over all its positions
BowStage(voc, depth, ts) ==
  LET g == VectorizeBatch(voc, ts)
  IN [r \in DOMAIN g |-> SumOneHot(g[r], depth)]

\* the index layouts of TextVectorization(output_mode='count'): older
\* releases keep index 0 for the mask token and 1 for '[UNK]' as in the int
\* mode, later ones have no mask token and put '[UNK]' at index 0
Layouts == {"mask_reserved", "no_mask"}

\* the vocabulary the count-mode vectorizer adapts from the stream
CountVocabulary(lay, stream, max_tokens) ==
  IF lay = "mask_reserved"
  THEN BuildVocabulary(stream, max_tokens)
  ELSE LET ranked == Ranked(stream, {stream[k] : k \in DOMAIN stream})
       IN <<UnkTok>> \o (IF Len(ranked) <= max_tokens - 1 THEN ranked
                         ELSE SubSeq(ranked, 1, max_tokens - 1))

\* the index of a token in the count vector
CountIndex(lay, voc, w) ==
  IF \E j \in DOMAIN voc : voc[j] = w
  THEN (CHOOSE j \in DOMAIN voc : voc[j] = w) - 1
  ELSE IF lay = "mask_reserved" THEN 1 ELSE 0

\* the count vector of one text: the tokens of the text counted per index,
\* over the max_tokens indices Dense(4, input_shape=(50000,)) reads
CountVector(lay, voc, depth, text) ==
  [k \in 0..(depth - 1) |->
     Cardinality({j \in DOMAIN text : CountIndex(lay, voc, text[j]) = k})]

InitBow ==
  /\ NoBag /\ NoPopulate /\ NoRnn /\ NoFit
  /\ NoNear /\ NoNotebook
  /\ kind \in {"unlimited", "capped"}
  /\ ds_train \in {<<a, b>> : a \in Docs, b \in Docs}
  /\ vocab_size \in IF kind = "capped" THEN 2..MaxVocab ELSE {0}
  /\ w2v_vocab = <<>>
  /\ vocab = <<PadTok, UnkTok>>
  /\ pc = "built"
  /\ texts = <<>>
  /\ grid = <<>>
  /\ steps = 0
  /\ outcome = "constructed"
  /\ bowop = "none"
  /\ bow = <<>>
  /\ cnt = <<>>
  /\ layout \in Layouts
  /\ rec = 0

\* to_bow(text) on one string
ToBow(k) ==
  /\ pc \in {"ready", "fit"}
  /\ texts' = <<ds_train[k]>>
  /\ grid' = VectorizeBatch(vocab, texts')
  /\ outcome' = "returned"
  /\ bowop' = "to_bow"
  /\ bow' = <<to_bow(vocab, vocab_size, ds_train[k])>>
  /\ UNCHANGED <<kind, vocab_size, ds_train, w2v_vocab, vocab, pc, steps>>
  /\ UNCHANGED <<cnt, layout, rec>>
  /\ UNCHANGED <<bagVars, popVars, rnnVars, fitVars, nearVars, nbVars>>

\* the token two words make when one string ends with the first and the next
\* string starts with the second and the strings are concatenated with
\* nothing in between: one longer word, which is none of the corpus words
Glue(a, b) == NumWords + (a - 1) * NumWords + b

\* the tokens of x['title']+x['description']: the last word of the title and
\* the first of the description run together
Joined(title, description) ==
  IF title = <<>> \/ description = <<>>
  THEN title \o description
  ELSE SubSeq(title, 1, Len(title) - 1)
         \o <<Glue(title[Len(title)], description[1])>>
         \o Tail(description)

\* one element of ds_train.map(lambda x: (to_bow(x['title']+x['description']),
\* x['label'])): record k, whose text in adapt was title+' '+description, so
\* its title is some prefix of that text's tokens and its description the rest
BowDataset(k) ==
  /\ pc \in {"ready", "fit"}
  /\ kind = "capped"
  /\ \E cut \in 0..Len(ds_train[k]) :
       LET title == SubSeq(ds_train[k], 1, cut)
           description == SubSeq(ds_train[k], cut + 1, Len(ds_train[k]))
       IN /\ texts' = <<Joined(title, description)>>
          /\ grid' = VectorizeBatch(vocab, texts')
          /\ bow' = <<to_bow(vocab, vocab_size, texts'[1])>>
  /\ outcome' = "returned"
  /\ bowop' = "dataset"
  /\ rec' = k
  /\ UNCHANGED <<kind, vocab_size, ds_train, w2v_vocab, vocab, pc, steps>>
  /\ UNCHANGED <<cnt, layout>>
  /\ UNCHANGED <<bagVars, popVars, rnnVars, fitVars, nearVars, nbVars>>

\* the one-network classifier (vectorizer with max_tokens=vocab_size) on a
\* batch: in model.fit, or called on one text
BowModel ==
  /\ pc \in {"ready", "fit"}
  /\ kind = "capped"
  /\ \E ts \in {<<ds_train[1]>>, <<ds_train[2]>>, ds_train} :
       /\ texts' = ts
       /\ grid' = VectorizeBatch(vocab, ts)
       /\ bow' = BowStage(vocab, vocab_size, ts)
  /\ outcome' = "returned"
  /\ bowop' = "model"
  /\ pc' = "fit"
  /\ UNCHANGED <<kind, vocab_size, ds_train, w2v_vocab, vocab, steps>>
  /\ UNCHANGED <<cnt, layout, rec>>
  /\ UNCHANGED <<bagVars, popVars, rnnVars, fitVars, nearVars, nbVars>>

\* the count-mode classifier: its own vectorizer, max_tokens the same number,
\* adapted on the same texts, then applied to a batch.  cnt pairs each text
\* of the batch with its vector.
CountModel ==
  /\ pc \in {"ready", "fit"}
  /\ kind = "capped"
  /\ \E ts \in {<<ds_train[1]>>, <<ds_train[2]>>, ds_train} :
       LET voc == CountVocabulary(layout, Flatten(ds_train), vocab_size)
       IN cnt' = [r \in DOMAIN ts |->
                    <<ts[r], CountVector(layout, voc, vocab_size, ts[r])>>]
  /\ UNCHANGED <<vecVars, bowop, bow, layout, rec>>
  /\ UNCHANGED <<bagVars, popVars, rnnVars, fitVars, nearVars, nbVars>>

NextBow ==
  \/ Adapt
  \/ \E k \in 1..2 : ToBow(k)
  \/ BowModel
  \/ CountModel

SpecBow == InitBow /\ [][NextBow]_vars

\* the bag-of-words datasets built from the records after adapt
NextBowData ==
  \/ Adapt
  \/ \E k \in 1..2 : BowDataset(k)

SpecBowData == InitBow /\ [][NextBowData]_vars

\* ======================================================================
\* The text-representation notebook run top to bottom: the cells that bind
\* the globals vectorizer and vocab_size and the cells that read them.
\* ======================================================================
\* mutant: the bigram vectorizer's cell moved before the bag-of-words cells
Cells_ngrams_early ==
  <<"vectorizer", "vocab_size", "to_bow", "capped", "ngrams", "to_bow",
    "bow_dataset", "fit_bow", "one_network", "count_model", "tfidf">>

\* the code cells in the order of the notebook
Cells ==
  <<"vectorizer", "vocab_size", "to_bow", "capped", "to_bow", "bow_dataset",
    "fit_bow", "one_network", "ngrams", "count_model", "tfidf">>

\* the exceptions that stop the run
Errors == {"NameError", "TypeError"}

\* the cell that runs next; the run stops at a cell that raised
NextCell(name) ==
  /\ cell < Len(Cells)
  /\ Cells[cell + 1] = name
  /\ outcome \notin Errors

\* the token of two neighbouring words taken as one bigram
Bigram(a, b) == Glue(a, b) + NumWords * NumWords

\* TextVectorization(ngrams=2): the words of the text and its bigrams
NGrams(text) ==
  text \o [k \in 1..(Len(text) - 1) |-> Bigram(text[k], text[k + 1])]

\* the tokens the vectorizer of a kind makes of a text
Tokens(k, text) == IF k = "ngrams" THEN NGrams(text) ELSE text

\* corpus = ['I like hot dogs.', 'The dog ran fast.', 'Its hot outside.']:
\* a few short texts that share a word
Corpus == <<<<1, 2>>, <<2>>>>

\* tf.reduce_sum(tf.one_hot(vectorizer(text),vocab_size),axis=0) with the
\* vectorizer k, voc and the depth the names are bound to: a Keras vectorizer
\* is called as a layer, a TfidfVectorizer is not callable, an unbound name
\* is a NameError
EvalToBow(k, voc, depth, text, op) ==
  IF k \in {"unlimited", "capped", "ngrams"} /\ depth > 0
  THEN /\ texts' = <<text>>
       /\ grid' = VectorizeBatch(voc, <<Tokens(k, text)>>)
       /\ bow' = <<to_bow(voc, depth, Tokens(k, text))>>
       /\ bowop' = op
       /\ outcome' = "returned"
  ELSE /\ outcome' = IF k = "tfidf" THEN "TypeError" ELSE "NameError"
       /\ UNCHANGED <<texts, grid, bow, bowop>>

InitNotebook ==
  /\ NoBag /\ NoPopulate /\ NoRnn /\ NoFit /\ NoNear /\ NoNotebook
  /\ kind = "none"
  /\ vocab_size = 0
  /\ ds_train \in {<<a, b>> : a \in Docs, b \in Docs}
  /\ w2v_vocab = <<>>
  /\ vocab = <<>>
  /\ pc = "unbound"
  /\ texts = <<>>
  /\ grid = <<>>
  /\ steps = 0
  /\ outcome = "none"
  /\ bowop = "none"
  /\ bow = <<>>
  /\ cnt = <<>>
  /\ layout \in Layouts
  /\ rec = 0

\* vectorizer = TextVectorization(); vectorizer.adapt(...)
CellVectorizer ==
  /\ NextCell("vectorizer")
  /\ kind' = "unlimited"
  /\ vocab' = BuildVocabulary(Flatten(ds_train), 0)
  /\ pc' = "ready"
  /\ outcome' = "constructed"
  /\ cell' = cell + 1
  /\ UNCHANGED <<vocab_size, ds_train, w2v_vocab, texts, grid, steps, traced>>
  /\ UNCHANGED <<bagVars, popVars, rnnVars, bowVars, fitVars, nearVars>>

\* vocab = vectorizer.get_vocabulary(); vocab_size = len(vocab)
CellVocabSize ==
  /\ NextCell("vocab_size")
  /\ IF kind \in {"unlimited", "capped", "ngrams"}
     THEN vocab_size' = Len(vocab) /\ outcome' = "returned"
     ELSE outcome' = (IF kind = "tfidf" THEN "TypeError" ELSE "NameError")
            /\ UNCHANGED vocab_size
  /\ cell' = cell + 1
  /\ UNCHANGED <<kind, ds_train, w2v_vocab, vocab, pc, texts, grid, steps, traced>>
  /\ UNCHANGED <<bagVars, popVars, rnnVars, bowVars, fitVars, nearVars>>

\* def to_bow(text): ...; to_bow('My dog likes hot dogs on a hot day.') and
\* to_bow(next(ds_train.as_numpy_iterator())['description']): to_bow on a
\* text, the whole of a record's text or its end
CellToBow ==
  /\ NextCell("to_bow")
  /\ \E k \in 1..2 : \E cut \in 0..Len(ds_train[k]) :
       EvalToBow(kind, vocab, vocab_size,
                 SubSeq(ds_train[k], cut + 1, Len(ds_train[k])), "to_bow")
  /\ cell' = cell + 1
  /\ UNCHANGED <<kind, vocab_size, ds_train, w2v_vocab, vocab, pc, steps, traced>>
  /\ UNCHANGED <<cnt, layout, rec>>
  /\ UNCHANGED <<bagVars, popVars, rnnVars, fitVars, nearVars>>

\* vocab_size = 50000; vectorizer = TextVectorization(max_tokens=vocab_size);
\* vectorizer.adapt(...)
CellCapped ==
  /\ NextCell("capped")
  /\ \E n \in 2..MaxVocab :
       /\ vocab_size' = n
       /\ vocab' = BuildVocabulary(Flatten(ds_train), n)
  /\ kind' = "capped"
  /\ pc' = "ready"
  /\ outcome' = "constructed"
  /\ cell' = cell + 1
  /\ UNCHANGED <<ds_train, w2v_vocab, texts, grid, steps, traced>>
  /\ UNCHANGED <<bagVars, popVars, rnnVars, bowVars, fitVars, nearVars>>

\* ds_train_bow = ds_train.map(lambda x: (to_bow(...),x['label'])).batch(128),
\* ds_test_bow likewise: map traces the lambda, and the trace holds the
\* vectorizer and the depth the globals are bound to at this cell
CellBowDataset ==
  /\ NextCell("bow_dataset")
  /\ IF kind \in {"unlimited", "capped", "ngrams"} /\ vocab_size > 0
     THEN /\ traced' = [kind |-> kind, vocab |-> vocab, depth |-> vocab_size]
          /\ outcome' = "returned"
     ELSE /\ outcome' = (IF kind = "tfidf" THEN "TypeError" ELSE "NameError")
          /\ UNCHANGED traced
  /\ cell' = cell + 1
  /\ UNCHANGED <<kind, vocab_size, ds_train, w2v_vocab, vocab, pc, texts, grid, steps>>
  /\ UNCHANGED <<bagVars, popVars, rnnVars, bowVars, fitVars, nearVars>>

\* model.fit(ds_train_bow,validation_data=ds_test_bow): the traced to_bow
\* runs on the records' title+description
CellFitBow ==
  /\ NextCell("fit_bow")
  /\ IF traced = <<>>
     THEN /\ outcome' = "NameError"
          /\ UNCHANGED <<texts, grid, bow, bowop, rec>>
     ELSE \E k \in 1..2 : \E cut \in 0..Len(ds_train[k]) :
            /\ EvalToBow(traced.kind, traced.vocab, traced.depth,
                         Joined(SubSeq(ds_train[k], 1, cut),
                                SubSeq(ds_train[k], cut + 1, Len(ds_train[k]))),
                         "dataset")
            /\ rec' = k
  /\ cell' = cell + 1
  /\ UNCHANGED <<kind, vocab_size, ds_train, w2v_vocab, vocab, pc, steps, traced>>
  /\ UNCHANGED <<cnt, layout>>
  /\ UNCHANGED <<bagVars, popVars, rnnVars, fitVars, nearVars>>

\* x = vectorizer(inp); x = tf.reduce_sum(tf.one_hot(x,vocab_size),axis=1);
\* ...; model.fit(ds_train.map(tupelize).batch(128), ...): the globals read
\* when the model is built, then a batch of the records
CellOneNetwork ==
  /\ NextCell("one_network")
  /\ IF kind \in {"unlimited", "capped", "ngrams"} /\ vocab_size > 0
     THEN /\ texts' = ds_train
          /\ grid' = VectorizeBatch(vocab, [r \in DOMAIN ds_train |->
                                              Tokens(kind, ds_train[r])])
          /\ bow' = [r \in DOMAIN ds_train |-> SumOneHot(grid'[r], vocab_size)]
          /\ bowop' = "model"
          /\ outcome' = "returned"
     ELSE /\ outcome' = (IF kind = "tfidf" THEN "TypeError" ELSE "NameError")
          /\ UNCHANGED <<texts, grid, bow, bowop>>
  /\ cell' = cell + 1
  /\ UNCHANGED <<kind, vocab_size, ds_train, w2v_vocab, vocab, pc, steps, traced>>
  /\ UNCHANGED <<cnt, layout, rec>>
  /\ UNCHANGED <<bagVars, popVars, rnnVars, fitVars, nearVars>>

\* vectorizer = TextVectorization(ngrams=2); vectorizer.adapt(...)
CellNgrams ==
  /\ NextCell("ngrams")
  /\ kind' = "ngrams"
  /\ vocab' = BuildVocabulary(Flatten([r \in DOMAIN ds_train |->
                                         NGrams(ds_train[r])]), 0)
  /\ pc' = "ready"
  /\ outcome' = "constructed"
  /\ cell' = cell + 1
  /\ UNCHANGED <<vocab_size, ds_train, w2v_vocab, texts, grid, steps, traced>>
  /\ UNCHANGED <<bagVars, popVars, rnnVars, bowVars, fitVars, nearVars>>

\* the model with TextVectorization(max_tokens=50000,output_mode='count'):
\* its vectorizer is the model's own layer, the globals stay as they are
CellCountModel ==
  /\ NextCell("count_model")
  /\ LET voc == CountVocabulary(layout, Flatten(ds_train), vocab_size)
     IN cnt' = [r \in DOMAIN ds_train |->
                  <<ds_train[r], CountVector(layout, voc, vocab_size, ds_train[r])>>]
  /\ cell' = cell + 1
  /\ UNCHANGED <<vecVars, bowop, bow, layout, rec, traced>>
  /\ UNCHANGED <<bagVars, popVars, rnnVars, fitVars, nearVars>>

\* vectorizer = TfidfVectorizer(ngram_range=(1,2));
\* vectorizer.fit_transform(corpus): scikit-learn's vocabulary_ has the
\* n-grams of the corpus in sorted order and no reserved entries
CellTfidf ==
  /\ NextCell("tfidf")
  /\ kind' = "tfidf"
  /\ vocab' = LET grams == Flatten([r \in DOMAIN Corpus |-> NGrams(Corpus[r])])
              IN Ascending({grams[k] : k \in DOMAIN grams})
  /\ pc' = "ready"
  /\ outcome' = "constructed"
  /\ cell' = cell + 1
  /\ UNCHANGED <<vocab_size, ds_train, w2v_vocab, texts, grid, steps, traced>>
  /\ UNCHANGED <<bagVars, popVars, rnnVars, bowVars, fitVars, nearVars>>

NextNotebook ==
  \/ CellVectorizer
  \/ CellVocabSize
  \/ CellToBow
  \/ CellCapped
  \/ CellBowDataset
  \/ CellFitBow
  \/ CellOneNetwork
  \/ CellNgrams
  \/ CellCountModel
  \/ CellTfidf

SpecNotebook == InitNotebook /\ [][NextNotebook]_vars

\* ======================================================================
\* model.compile(loss='sparse_categorical_crossentropy', optimizer='adam');
\* model.fit(ds_train.map(tupelize).batch(n)): one epoch over the batches in
\* the order of the dataset, no callbacks.  A batch is one training record.
\* A loss is "finite" or "nan" (any non-finite value).
\* ======================================================================
\* Nearest word: the word whose pre-trained vector is closest to
\* king - man + 1.2 * woman.  A vector is one component; the query and the
\* distances are kept in tenths so that the factor 1.2 stays an integer.
\* The words king, man and woman are the first three of index2word.
\* ======================================================================
MaxVectors == 4
VecVals == 0..2
King == 1
Man == 2
Woman == 3

\* glove.word_vec(w): the row of the word in glove.vectors
word_vec(vs, w) == vs[w]

\* mutant: the index of a largest entry
ArgMin_largest(d) ==
  {j - 1 : j \in {k \in DOMAIN d : \A q \in DOMAIN d : d[k] >= d[q]}}

\* tf.argmin(d): the 0-based index of a smallest entry; which one when
\* several entries are smallest is not defined by the operation
ArgMin(d) ==
  {j - 1 : j \in {k \in DOMAIN d : \A q \in DOMAIN d : d[k] <= d[q]}}

InitNearest ==
  /\ NoBag /\ NoPopulate /\ NoRnn /\ NoBow /\ NoFit
  /\ NoNotebook
  /\ kind = "w2v"
  /\ vocab_size = 0
  /\ ds_train = <<<<>>, <<>>>>
  /\ w2v_vocab = <<>>
  /\ vocab = <<>>
  /\ pc = "loaded"
  /\ texts = <<>>
  /\ grid = <<>>
  /\ steps = 0
  /\ outcome = "constructed"
  /\ vectors \in UNION {[1..n -> VecVals] : n \in Woman..MaxVectors}
  /\ qvec = 0
  /\ dist = <<>>
  /\ min_idx = -1

\* qvec = glove.word_vec('king')-glove.word_vec('man')+1.2*glove.word_vec('woman')
Query ==
  /\ pc = "loaded"
  /\ qvec' = 10 * word_vec(vectors, King) - 10 * word_vec(vectors, Man)
               + 12 * word_vec(vectors, Woman)
  /\ pc' = "query"
  /\ UNCHANGED <<kind, vocab_size, ds_train, w2v_vocab, vocab, texts, grid, steps, outcome>>
  /\ UNCHANGED <<bagVars, popVars, rnnVars, bowVars, fitVars, vectors, dist, min_idx, nbVars>>

\* d = tf.reduce_sum((glove.vectors-qvec)**2,axis=1)
Distances ==
  /\ pc = "query"
  /\ dist' = [j \in DOMAIN vectors |->
               (10 * vectors[j] - qvec) * (10 * vectors[j] - qvec)]
  /\ pc' = "distances"
  /\ UNCHANGED <<kind, vocab_size, ds_train, w2v_vocab, vocab, texts, grid, steps, outcome>>
  /\ UNCHANGED <<bagVars, popVars, rnnVars, bowVars, fitVars, vectors, qvec, min_idx, nbVars>>

\* min_idx = tf.argmin(d).numpy(); glove.index2word[min_idx]
Nearest ==
  /\ pc = "distances"
  /\ min_idx' \in ArgMin(dist)
  /\ pc' = IF min_idx' \in 0..(Len(vectors) - 1) THEN "found" ELSE "failed"
  /\ outcome' = IF min_idx' \in 0..(Len(vectors) - 1) THEN "returned"
                                                       ELSE "IndexError"
  /\ UNCHANGED <<kind, vocab_size, ds_train, w2v_vocab, vocab, texts, grid, steps>>
  /\ UNCHANGED <<bagVars, popVars, rnnVars, bowVars, fitVars, vectors, qvec, dist, nbVars>>

NextNearest ==
  \/ Query
  \/ Distances
  \/ Nearest

SpecNearest == InitNearest /\ [][NextNearest]_vars

\* ======================================================================
LossVals == {"finite", "nan"}

\* the losses a train step can compute: non-finite weights give a
\* non-finite loss, finite weights either
StepLosses(p) == IF p = "nan" THEN {"nan"} ELSE LossVals

\* the weights after the optimizer applied the step's gradients: a
\* non-finite loss has non-finite gradients
Updated(p, loss) == IF loss = "nan" THEN "nan" ELSE p

InitFit ==
  /\ NoBag /\ NoPopulate /\ NoRnn /\ NoBow /\ NoFit
  /\ NoNear /\ NoNotebook
  /\ kind = "capped"
  /\ ds_train \in {<<a, b>> : a \in Docs, b \in Docs}
  /\ vocab_size \in 2..MaxVocab
  /\ w2v_vocab = <<>>
  /\ vocab = <<PadTok, UnkTok>>
  /\ pc = "built"
  /\ texts = <<>>
  /\ grid = <<>>
  /\ steps = 0
  /\ outcome = "constructed"

\* mutant: fit stops at a non-finite loss, as with a TerminateOnNaN callback
FitBatch_terminate_on_nan ==
  /\ pc \in {"ready", "fit"}
  /\ Len(losses) < Len(ds_train)
  /\ \E loss \in StepLosses(params) :
       /\ losses' = Append(losses, loss)
       /\ params' = Updated(params, loss)
       /\ pc' = IF loss = "nan" THEN "aborted" ELSE "fit"
  /\ dense' \in DenseVals
  /\ texts' = <<ds_train[Len(losses) + 1]>>
  /\ grid' = VectorizeBatch(vocab, texts')
  /\ outcome' = "returned"
  /\ steps' = steps + 1
  /\ UNCHANGED <<kind, vocab_size, ds_train, w2v_vocab, vocab>>
  /\ UNCHANGED <<bagVars, popVars, rnnVars, bowVars, nearVars, nbVars>>

\* the train step of fit on the next batch: forward pass, loss, gradients,
\* the optimizer's update.  Nothing in the step tests the loss.
FitBatch ==
  /\ pc \in {"ready", "fit"}
  /\ Len(losses) < Len(ds_train)
  /\ \E loss \in StepLosses(params) :
       /\ losses' = Append(losses, loss)
       /\ params' = Updated(params, loss)
  /\ dense' \in DenseVals
  /\ pc' = "fit"
  /\ texts' = <<ds_train[Len(losses) + 1]>>
  /\ grid' = VectorizeBatch(vocab, texts')
  /\ outcome' = "returned"
  /\ steps' = steps + 1
  /\ UNCHANGED <<kind, vocab_size, ds_train, w2v_vocab, vocab>>
  /\ UNCHANGED <<bagVars, popVars, rnnVars, bowVars, nearVars, nbVars>>

\* the dataset is exhausted: fit returns its History
FitReturn ==
  /\ pc = "fit"
  /\ Len(losses) = Len(ds_train)
  /\ pc' = "fitted"
  /\ UNCHANGED <<kind, vocab_size, ds_train, w2v_vocab, vocab, texts, grid, steps, outcome>>
  /\ UNCHANGED <<bagVars, popVars, rnnVars, bowVars, fitVars, nearVars, nbVars>>

NextFit ==
  \/ Adapt
  \/ FitBatch
  \/ FitReturn

SpecFit == InitFit /\ [][NextFit]_vars

\* ======================================================================
\* Properties of the vectorizer (specification Spec)
\* ======================================================================
\* the vectorizer's vocabulary comes from adapt, and adapt has run
Adapted == kind \in {"unlimited", "capped"} /\ pc \notin {"built", "failed"}

\* the vectorizer has been called
Called == grid # <<>>

\* C1: with max_tokens=N the adapted vocabulary has at most N entries; id 0
\* is the padding token, id 1 the unknown token, and every corpus word in the
\* vocabulary has an id of 2 or more.
C1_VocabularyCapped ==
  Adapted =>
    /\ kind = "capped" => Len(vocab) <= vocab_size
    /\ Len(vocab) >= 2 /\ vocab[PAD + 1] = PadTok /\ vocab[OOV + 1] = UnkTok
    /\ \A w \in Words : \A j \in DOMAIN vocab : vocab[j] = w => j - 1 >= 2

\* C1 witness: the corpus has more distinct words than max_tokens leaves room
\* for, and the adapted vocabulary is exactly max_tokens long
C1_Witness ==
  /\ Adapted /\ kind = "capped"
  /\ Cardinality({w \in Words : Count(Flatten(ds_train), w) > 0}) > vocab_size - 2
  /\ Len(vocab) = vocab_size /\ vocab_size > 2

\* C2: the grid of a call is as wide as the longest token sequence of the
\* call, and grid[r][j] # PAD exactly when j is within the length of text r,
\* so row r has as many non-padding entries as text r has tokens.
C2_MaskMatchesLength ==
  Called =>
    \A r \in DOMAIN grid :
      /\ Len(grid[r]) = Max({Len(texts[q]) : q \in DOMAIN texts})
      /\ \A j \in DOMAIN grid[r] : (grid[r][j] # PAD) <=> (j <= Len(texts[r]))
      /\ Cardinality({j \in DOMAIN grid[r] : grid[r][j] # PAD}) = Len(texts[r])

\* C2 witness: a two-row grid whose shorter row holds an unknown token
C2_Witness ==
  /\ Called /\ Len(grid) = 2
  /\ Len(texts[1]) < Len(texts[2]) /\ Len(texts[1]) > 0
  /\ \E j \in DOMAIN texts[1] : \A v \in DOMAIN vocab : vocab[v] # texts[1][j]

\* C3: row r of the grid is the ids of text r in their order followed by
\* nothing but PAD.
C3_RightPadded ==
  Called =>
    \A r \in DOMAIN grid :
      /\ Len(grid[r]) >= Len(texts[r])
      /\ SubSeq(grid[r], 1, Len(texts[r])) = Vectorize(vocab, texts[r])
      /\ \A j \in (Len(texts[r]) + 1)..Len(grid[r]) : grid[r][j] = PAD

\* C3 witness: a row with two tokens' ids below a row with one id and one PAD
C3_Witness ==
  /\ Called /\ Len(grid) = 2
  /\ Len(texts[1]) = 1 /\ Len(texts[2]) = 2
  /\ grid[1][1] # PAD /\ grid[1][2] = PAD

\* C6 (as stated): ids after the reserved two go by descending corpus
\* frequency, equal frequencies by first appearance in the corpus.
C6_TiesByFirstAppearance ==
  Adapted =>
    LET stream == Flatten(ds_train)
    IN \A a, b \in 3..Len(vocab) :
         a < b =>
           \/ Count(stream, vocab[a]) > Count(stream, vocab[b])
           \/ /\ Count(stream, vocab[a]) = Count(stream, vocab[b])
              /\ FirstSeen(stream, vocab[a]) < FirstSeen(stream, vocab[b])

\* the corpus ["hot dog", "dog runs", "hot day"] with day=1 dog=2 hot=3 runs=4
ExampleStream == <<3, 2>> \o <<2, 4>> \o <<3, 1>>

\* C6 (amended): ids after the reserved two go by descending corpus
\* frequency, equal frequencies by descending token; the example corpus with
\* maximum 10 gives hot=2, dog=3, runs=4, day=5.
C6_TiesByDescendingToken ==
  /\ Adapted =>
       LET stream == Flatten(ds_train)
       IN \A a, b \in 3..Len(vocab) :
            a < b =>
              \/ Count(stream, vocab[a]) > Count(stream, vocab[b])
              \/ /\ Count(stream, vocab[a]) = Count(stream, vocab[b])
                 /\ vocab[a] > vocab[b]
  /\ BuildVocabulary(ExampleStream, 10) = <<PadTok, UnkTok, 3, 2, 4, 1>>

\* C6 witness: two words of equal count, the one that appears first in the
\* corpus ranked second
C6_Witness ==
  /\ Adapted /\ Len(vocab) >= 4
  /\ Count(Flatten(ds_train), vocab[3]) = Count(Flatten(ds_train), vocab[4])
  /\ FirstSeen(Flatten(ds_train), vocab[4]) < FirstSeen(Flatten(ds_train), vocab[3])

\* C7: a call returns one id per token, in token order; a token of the
\* vocabulary gets its index there, any other token gets the unknown id 1.
C7_KnownOrUnknown ==
  Called =>
    \A r \in DOMAIN texts :
      \A k \in DOMAIN texts[r] :
        LET w == texts[r][k]
        IN IF \E j \in DOMAIN vocab : vocab[j] = w
           THEN \E j \in DOMAIN vocab : vocab[j] = w /\ grid[r][k] = j - 1
           ELSE grid[r][k] = OOV

\* C7 witness: a text whose first token is unknown and whose second is known
C7_Witness ==
  /\ Called /\ Len(texts[1]) = 2
  /\ \A j \in DOMAIN vocab : vocab[j] # texts[1][1]
  /\ \E j \in DOMAIN vocab : vocab[j] = texts[1][2]
  /\ grid[1][1] = OOV /\ grid[1][2] >= 2

\* C8: every id a model's vectorizer emits is a row of the table that
\* consumes it.
C8_IdsWithinTable ==
  Called => \A r \in DOMAIN grid : \A j \in DOMAIN grid[r] :
              grid[r][j] \in 0..(TableRows - 1)

\* C9: once the vocabulary is set it never changes, and fit takes no step
\* before it is set.
C9_VocabularyFrozen ==
  [][/\ pc # "built" => vocab' = vocab
     /\ steps' # steps => pc # "built"]_vars

\* C9 witness: an adapted vocabulary with a word in it, after calls on a text
\* with an unknown token and all the steps of fit
C9_Witness ==
  /\ Adapted /\ pc = "fit" /\ steps >= 2 /\ Len(vocab) > 2
  /\ Len(texts) = 1
  /\ \E k \in DOMAIN texts[1] : \A j \in DOMAIN vocab : vocab[j] # texts[1][k]

\* C11: with the vocabulary fixed, a text of the dataset gets the same id at
\* every position of its tokens whether it is vectorized alone, before or
\* after another text of the dataset in a list, and the grid of the latest
\* call holds those ids.
C11_SameIdsInAnyBatch ==
  pc \in {"ready", "fit"} =>
    /\ \A d \in {ds_train[1], ds_train[2]} : \A other \in {ds_train[1], ds_train[2]} :
         LET alone == VectorizeBatch(vocab, <<d>>)[1]
         IN /\ SubSeq(VectorizeBatch(vocab, <<d, other>>)[1], 1, Len(d)) = alone
            /\ SubSeq(VectorizeBatch(vocab, <<other, d>>)[2], 1, Len(d)) = alone
    /\ \A r \in DOMAIN grid :
         SubSeq(grid[r], 1, Len(texts[r])) = VectorizeBatch(vocab, <<texts[r]>>)[1]

\* C11 witness: the grid of a list call whose first text has a known token
\* and is followed by a longer, different text
C11_Witness ==
  /\ outcome = "returned" /\ Len(grid) = 2
  /\ Len(texts[1]) = 1 /\ Len(texts[2]) = 2
  /\ grid[1][1] >= 2
  /\ texts[2][1] # texts[1][1]

\* C12: the ids of a text without tokens are the empty sequence, and a call
\* on such a text alone has returned one row of length 0.
C12_EmptyTextEmptyRow ==
  /\ Vectorize(vocab, <<>>) = <<>>
  /\ (Len(texts) = 1 /\ texts[1] = <<>>) =>
       (Len(grid) = 1 /\ Len(grid[1]) = 0)

\* C12 witness: the vectorizer, with a word in its vocabulary, was called on
\* the empty text alone
C12_Witness ==
  /\ Called /\ Len(texts) = 1 /\ texts[1] = <<>>
  /\ Len(vocab) > 2 /\ outcome = "returned"

\* C13: a call on an empty list of texts never returns: no state follows
\* such a call with an empty grid as its result.
C13_EmptyBatchFails ==
  ~(outcome = "returned" /\ texts = <<>> /\ grid = <<>>)

\* C14: a vectorizer constructed with max_tokens below 2 is not there: the
\* constructor has raised, no vocabulary exists, and none is ever built.
C14_SmallMaxTokensRejected ==
  (kind = "capped" /\ vocab_size < 2) =>
    (pc = "failed" /\ outcome = "ValueError" /\ vocab = <<>>)

\* C14 witness: the constructor was given max_tokens=1 and has raised
C14_Witness ==
  kind = "capped" /\ vocab_size = 1 /\ pc = "failed" /\ outcome = "ValueError"

\* ======================================================================
\* Properties of the embedding-bag classifier (specification SpecBag)
\* ======================================================================
\* C4: the pooled vector of a text does not depend on the padding its row
\* got: it equals the mean over the text's own tokens, whatever the width of
\* the batch.
C4_PoolIgnoresPadding ==
  pooled # <<>> =>
    \A r \in DOMAIN texts :
      Len(texts[r]) > 0 =>
        SameMean(pooled[r], ReduceMean(Embed(emb, Vectorize(vocab, texts[r]))))

\* ======================================================================
\* Properties of the population loop (specification SpecPopulate)
\* ======================================================================
\* C10: an iteration on a word without a pre-trained vector moves on to the
\* next index with the loop still running and W untouched, so every such
\* row passed so far holds its initial zero, and the loop ends only after
\* the last index.
C10_MissIsNotAnError ==
  /\ [][(pc = "populating" /\ i < Len(vocab) /\ ~HasVector(vocab[i + 1]))
          => (pc' = "populating" /\ i' = i + 1 /\ W' = W)]_vars
  /\ [](pc \in {"populating", "populated"} =>
          \A j \in 0..(i - 1) : ~HasVector(vocab[j + 1]) => W[j] = 0)
  /\ [](pc = "populated" => i = Len(vocab))

\* C10 witness: the loop has ended after a word with a vector that follows the
\* two reserved tokens, both without one, and precedes a word without one
C10_Witness ==
  /\ pc = "populated" /\ Len(vocab) = 4 /\ i = 4
  /\ HasVector(vocab[3]) /\ ~HasVector(vocab[4])
  /\ W[0] = 0 /\ W[1] = 0 /\ W[2] # 0 /\ W[3] = 0

\* C22: when the population loop has ended, row j of W for every j below
\* len(vocab) is the pre-trained vector of vocab[j] if it has one and zero
\* otherwise, j is the id the vectorizer gives vocab[j], the rows from
\* len(vocab) up to vocab_size are zero, and W has exactly the rows
\* 0..vocab_size-1 throughout the loop.
C22_TableMatchesVocabulary ==
  /\ [](pc = "populated" =>
          /\ Len(vocab) <= vocab_size
          /\ \A j \in 0..(Len(vocab) - 1) :
                /\ W[j] = IF HasVector(vocab[j + 1])
                          THEN get_vector(vocab[j + 1]) ELSE 0
                /\ IdOf(vocab, vocab[j + 1]) = j
          /\ \A j \in Len(vocab)..(vocab_size - 1) : W[j] = 0)
  /\ [](pc \in {"populating", "populated"} =>
          DOMAIN W = 0..(vocab_size - 1))

\* C22 witness: the loop has ended on a vocabulary one word shorter than the
\* table, the word has a pre-trained vector and its row holds it, and the row
\* past the vocabulary is zero
C22_Witness ==
  /\ pc = "populated" /\ Len(vocab) = 3 /\ vocab_size = 4
  /\ HasVector(vocab[3]) /\ W[2] = get_vector(vocab[3]) /\ W[2] # 0
  /\ IdOf(vocab, vocab[3]) = 2
  /\ W[3] = 0

\* C23: every iteration of the population loop adds one to exactly one of
\* found and not_found, so their sum is the number of entries processed so
\* far; when the loop has ended the sum is len(vocab) and found is the number
\* of rows that were written, which are the rows that differ from zero.
C23_CountersPartitionVocabulary ==
  /\ [][(pc = "populating" /\ i' = i + 1) =>
          \/ found' = found + 1 /\ not_found' = not_found
          \/ found' = found /\ not_found' = not_found + 1]_vars
  /\ [](pc \in {"populating", "populated"} => found + not_found = i)
  /\ [](pc = "populated" =>
          /\ found + not_found = Len(vocab)
          /\ found = Cardinality({j \in 0..(Len(vocab) - 1) :
                                    HasVector(vocab[j + 1])})
          /\ found = Cardinality({j \in DOMAIN W : W[j] # 0}))

\* C23 witness: the loop has ended on two words, one with a pre-trained
\* vector and one without, after the two reserved tokens
C23_Witness ==
  /\ pc = "populated" /\ Len(vocab) = 4
  /\ ~HasVector(vocab[3]) /\ HasVector(vocab[4])
  /\ found = 1 /\ not_found = 3

\* C24: in the model on the pre-populated table, after any number of fit
\* steps every row of the Embedding layer equals the row of W it was built
\* with; a fit step changes neither the table nor W nor the vocabulary, only
\* the classifier's weights.
C24_FrozenTableKeepsW ==
  /\ [](pc = "frozen" => (DOMAIN emb = DOMAIN W /\ \A j \in DOMAIN W : emb[j] = W[j]))
  /\ [][(pc = "frozen" /\ steps' # steps) =>
          (emb' = emb /\ W' = W /\ vocab' = vocab)]_vars

\* C24 witness: all the fit steps taken, the classifier's weights moved off
\* their initial value, on a table with a pre-trained row and a zero row
C24_Witness ==
  /\ pc = "frozen" /\ steps = MaxSteps /\ dense # 0
  /\ emb = W /\ vocab_size > 2 /\ W[2] # 0 /\ W[0] = 0

\* C17: a vectorizer with max_tokens=N adapted on a corpus of at least N
\* distinct words has the N most frequent of them in its vocabulary.
C17_KeepsNMostFrequent ==
  LET stream == Flatten(ds_train)
      seen == {stream[k] : k \in DOMAIN stream}
      kept == {vocab[j] : j \in 3..Len(vocab)}
  IN (Adapted /\ kind = "capped" /\ Cardinality(seen) >= vocab_size) =>
       /\ Cardinality(kept) = vocab_size
       /\ \A w \in kept : \A v \in seen \ kept : Ranks(stream, w, v)

\* C21: in the model on the pre-trained vocabulary the id emitted for a word
\* of that vocabulary is the word's row in the pre-trained table, and every
\* emitted id is a row of that table.
C21_IdIsVectorRow ==
  (Called /\ kind = "w2v") =>
    \A r \in DOMAIN texts : \A j \in DOMAIN texts[r] :
      /\ grid[r][j] \in 0..(Len(w2v_vocab) - 1)
      /\ HasVector(texts[r][j]) => grid[r][j] = VectorRow(texts[r][j])

\* ======================================================================
\* Properties of the bags of words (specification SpecBow)
\* ======================================================================
\* C18: the vector of to_bow(text) has the indices 0..vocab_size-1, entry k
\* is the number of tokens of the text with id k, unknown tokens counted at
\* index 1, and the entries add up to the number of tokens.
C18_BowCountsIds ==
  bowop = "to_bow" =>
    LET ids == Vectorize(vocab, texts[1])
        v == bow[1]
    IN /\ Len(bow) = 1
       /\ DOMAIN v = 0..(vocab_size - 1)
       /\ \A k \in DOMAIN v : v[k] = Cardinality({j \in DOMAIN ids : ids[j] = k})
       /\ v[OOV] = Cardinality({j \in DOMAIN texts[1] :
                                  \A q \in DOMAIN vocab : vocab[q] # texts[1][j]})
       /\ SeqSum([k \in 1..vocab_size |-> v[k - 1]]) = Len(texts[1])

\* C18 witness: to_bow of a text with an unknown word and a known word
C18_Witness ==
  /\ bowop = "to_bow" /\ Len(texts[1]) = 2
  /\ vocab_size >= 3
  /\ bow[1][OOV] = 1 /\ bow[1][2] = 1

\* C19: the vector the one-network model computes for a text of a batch is
\* the vector the count-mode model computes for that text.
C19_BowStageIsCountMode ==
  bowop = "model" =>
    \A r \in DOMAIN bow : \A q \in DOMAIN cnt :
      texts[r] = cnt[q][1] => bow[r] = cnt[q][2]

\* C20: the vector the one-network model computes for a text of a batch is
\* the vector of the text alone, entry 0 included.
C20_BowIgnoresBatch ==
  bowop = "model" =>
    \A r \in DOMAIN bow :
      /\ bow[r] = BowStage(vocab, vocab_size, <<texts[r]>>)[1]
      /\ bow[r][PAD] = 0

\* (specification SpecBowData)
\* C25: for every record, the text handed to to_bow in the bag-of-words
\* dataset has the same tokens as the text of that record the vocabulary was
\* adapted on.
C25_BowTextIsAdaptText ==
  bowop = "dataset" => texts[1] = ds_train[rec]

\* ======================================================================
\* Properties of fit (specification SpecFit)
\* ======================================================================
\* C15 (as stated): a batch with a non-finite loss is the last batch fit
\* processes, and fit does not return as after a complete run.
C15_NonFiniteLossAborts ==
  \A j \in DOMAIN losses :
    losses[j] = "nan" => (Len(losses) = j /\ pc # "fitted")

\* C15 (amended): a batch with a non-finite loss is recorded like any other
\* and does not abort the run: every step of fit processes the batch after
\* the one before, once, fit never aborts, and it returns after the last
\* batch of the dataset.
C15_NonFiniteLossGoesOn ==
  /\ [][losses' # losses =>
          /\ losses' = Append(losses, losses'[Len(losses')])
          /\ texts' = <<ds_train[Len(losses')]>>]_vars
  /\ [](pc # "aborted")
  /\ [](pc = "fitted" => Len(losses) = Len(ds_train))

\* C15 witness: fit has returned after a first batch with a non-finite loss
\* and a second batch
C15_Witness ==
  /\ pc = "fitted" /\ Len(losses) = 2 /\ losses[1] = "nan"
  /\ texts = <<ds_train[2]>>

\* ======================================================================
\* Properties of the recurrent classifiers (specification SpecRNN)
\* ======================================================================
\* the embedded tokens of text r of the batch, without padding
OwnInputs(r) == Embed(emb, Vectorize(vocab, texts[r]))

\* the carried state of every row is the state of the scan of the row's own
\* tokens, as far as the scan has come, and Dense gets the final state of
\* the scan of the row's own tokens
PaddingLeavesState ==
  /\ layer = 1 =>
       \A r \in DOMAIN grid :
         LET n == Len(texts[r])
             seen == IF t < n THEN t ELSE n
         IN fw[r] = ScanFrom(rnn, wgt, ZeroState, SubSeq(OwnInputs(r), 1, seen))
  /\ out # <<>> =>
       \A r \in DOMAIN grid :
         Len(texts[r]) > 0 =>
           out[r] = RnnAlone(rnn, wgt, emb, Vectorize(vocab, texts[r]))

\* C5 (as stated): in every recurrent classifier the scan leaves the carried
\* state unchanged at padded positions, and the final state of a padded row
\* is the final state of the scan of the unpadded sequence.
C5_EveryScanSkipsPadding == PaddingLeavesState

\* C5 (amended): the same for the classifiers whose Embedding has
\* mask_zero=True (masked SimpleRNN, LSTM, bidirectional LSTM).
C5_MaskedScanSkipsPadding == Masking(rnn) => PaddingLeavesState

\* C5 witness: the two-layer bidirectional LSTM has finished a batch whose
\* first row is shorter than the second, with a non-zero result for it
C5_Witness ==
  /\ rnn = "BiLSTM" /\ out # <<>>
  /\ Len(texts[1]) = 1 /\ Len(texts[2]) = 2
  /\ grid[1][2] = PAD
  /\ out[1] # <<0, 0>>

\* C27: in a bidirectional layer the forward state of a row is the scan, from
\* the zero state, of the row's inputs in token order as far as the layer has
\* come, the backward state is the scan, from the zero state, of the same
\* inputs in reverse token order, so neither depends on the other, and what
\* the last layer hands to Dense is the forward final state followed by the
\* backward one: twice the width of one direction.
C27_TwoIndependentScans ==
  (IsBidirectional(rnn) /\ xseq # <<>>) =>
    \A r \in DOMAIN grid :
      LET n == Len(texts[r])
          pads == Len(grid[1]) - n
          xs == SubSeq(xseq[r], 1, n)
          fseen == IF t < n THEN t ELSE n
          bseen == IF t > pads THEN t - pads ELSE 0
      IN /\ fw[r] = ScanFrom(rnn, wgt, ZeroState, SubSeq(xs, 1, fseen))
         /\ bw[r] = ScanFrom(rnn, wgt, ZeroState, SubSeq(Reverse(xs), 1, bseen))
         /\ out # <<>> => (Len(out[r]) = 2 /\ out[r] = <<fw[r].h, bw[r].h>>)

\* C27 witness: the bidirectional model has finished a batch with a row of
\* two different tokens on which the two directions end in different states
C27_Witness ==
  /\ rnn = "BiLSTM" /\ out # <<>>
  /\ Len(texts[2]) = 2 /\ texts[2][1] # texts[2][2]
  /\ out[2][1] # out[2][2]

\* C28: in the two-layer model the second layer's input has one entry per
\* position of the grid, and at every position of a row's tokens it is the
\* first layer's output at that position; a one-layer model's recurrent layer
\* reads the Embedding's output; and the last layer hands Dense one final
\* state per direction whatever the number of positions.
C28_SequencesBetweenLayers ==
  /\ (NumLayers(rnn) = 2 /\ (layer = 2 \/ out # <<>>)) =>
       \A r \in DOMAIN grid :
         /\ Len(xseq[r]) = Len(grid[r])
         /\ \A p \in 1..Len(texts[r]) :
               xseq[r][p] = SecondLayerInput(rnn, wgt, OwnInputs(r))[p]
  /\ (NumLayers(rnn) = 1 /\ xseq # <<>>) =>
       /\ layer <= 1
       /\ \A r \in DOMAIN grid : xseq[r] = Embed(emb, grid[r])
  /\ out # <<>> =>
       \A r \in DOMAIN grid :
         Len(out[r]) = IF IsBidirectional(rnn) THEN 2 ELSE 1

\* C28 witness: the second layer of the two-layer model is scanning a batch
\* with a row of two different tokens whose two inputs from the first layer
\* differ
C28_Witness ==
  /\ rnn = "BiLSTM" /\ layer = 2 /\ t = 1
  /\ Len(texts[2]) = 2 /\ texts[2][1] # texts[2][2]
  /\ xseq[2][1] # xseq[2][2]

\* ======================================================================
\* Properties of the nearest-word lookup (specification SpecNearest)
\* ======================================================================
\* the index found is an index of the word list and no vector is closer to
\* the query than the one at that index
NearestIsClosest ==
  /\ min_idx \in 0..(Len(vectors) - 1)
  /\ outcome = "returned"
  /\ \A j \in DOMAIN vectors :
        (10 * vectors[min_idx + 1] - qvec) * (10 * vectors[min_idx + 1] - qvec)
          <= (10 * vectors[j] - qvec) * (10 * vectors[j] - qvec)

ToBowReady(k, voc, depth) ==
  /\ k \in {"unlimited", "capped"}
  /\ Len(voc) >= 2
  /\ Len(voc) <= depth

\* C26: whenever the next cell of the run evaluates to_bow, the names
\* vectorizer and vocab_size are bound to an adapted Keras vectorizer and a
\* depth no smaller than its vocabulary; when the next cell runs the dataset
\* built on to_bow the same holds of what the dataset's map took; no cell
\* raises; and every id of the latest to_bow evaluation is an index of the
\* vector it returned.
C26_ToBowFindsFittingVectorizer ==
  /\ (NextCell("to_bow") \/ NextCell("bow_dataset")) =>
       (pc = "ready" /\ ToBowReady(kind, vocab, vocab_size))
  /\ NextCell("fit_bow") =>
       (traced # <<>> /\ ToBowReady(traced.kind, traced.vocab, traced.depth))
  /\ outcome \notin Errors
  /\ bowop \in {"to_bow", "dataset"} =>
       \A j \in DOMAIN grid[1] : grid[1][j] \in DOMAIN bow[1]

\* C26 witness: the run is through all the cells, the name vectorizer rebound
\* three times and last to a TfidfVectorizer, and the dataset's to_bow ran on
\* a record with a vectorizer whose vocabulary fills the depth
C26_Witness ==
  /\ cell = Len(Cells) /\ kind = "tfidf"
  /\ rec # 0
  /\ traced # <<>> /\ traced.kind = "capped"
  /\ Len(traced.vocab) = traced.depth /\ traced.depth > 2

====
